---- MODULE Spec2Model ----
(***************************************************************************)
(* Model of the HEUv3 serial driver (src/src/heu3/heu3_driver.py): the     *)
(* connection field, the lock, the callers' positions inside _send_query   *)
(* and open_connection, the serial handles with their input buffers and    *)
(* the device at the other end of the link.                                *)
(*                                                                         *)
(* Text is a sequence of one-character strings.  Bytes that travel on the  *)
(* link are records [c, q, i]: the character, the query it belongs to (a   *)
(* written command, or the device's reply to it) and its position there.   *)
(***************************************************************************)
EXTENDS Integers, Sequences, FiniteSets, TLC

\* ---------------------------------------------------------------- bounds
NumThreads == 2
MaxOps == 2
MaxHandles == 2
SpeedMargin == 2
FlowMargin == 3
TempMargin == 2
PumpMargin == 1

Threads == 1..NumThreads
Handles == 1..MaxHandles

\* ------------------------------------------------------------- constants
None == 0
term_char == "\r"

VARIABLES
    serial_port,     \* self.serial_port: None or a handle
    lock,            \* self._lock: 0 when free, else the holding thread
    pc,              \* per caller: position in the driver
    cur,             \* per caller: the locals of the running call
    outcome,         \* per caller: how its last call ended
    hstate,          \* per handle: "none" | "open" | "closed"
    inbuf,           \* per handle: bytes received and not yet read
    pending,         \* per handle: bytes the device has still to deliver
    echo,            \* device option: echo enabled
    wire,            \* log of guard and transport operations, in order
    nops,            \* driver calls started so far
    nq,              \* queries started so far
    nh,              \* handles created so far
    lastOpenFailed,  \* the last assignment of open_connection was the failure one
    commFailed,      \* a query failed with a transport error since the last open
    instrument,      \* pyvisa variant: self.instrument is not None
    apiWire,         \* pyvisa variant: the messages given to instrument.query
    apiOutcome       \* pyvisa variant: how the last call ended

apiVars == <<instrument, apiWire, apiOutcome>>

vars == <<serial_port, lock, pc, cur, outcome, hstate, inbuf, pending, echo,
          wire, nops, nq, nh, lastOpenFailed, commFailed, apiVars>>

\* ------------------------------------------------------------------ text
Txt(s) == [i \in 1..Len(s) |-> s[i].c]

Tag(s, q) == [i \in 1..Len(s) |-> [c |-> s[i], q |-> q, i |-> i]]

Whitespace == {" ", "\t", "\n", "\r", "\f"}

endswith(s, ch) == Len(s) > 0 /\ s[Len(s)] = ch

\* str.replace(old, ''): every non-overlapping occurrence, left to right
RECURSIVE replace(_, _)
replace(s, old) ==
    IF Len(old) = 0 \/ Len(s) < Len(old) THEN s
    ELSE IF Txt(SubSeq(s, 1, Len(old))) = old
         THEN replace(SubSeq(s, Len(old) + 1, Len(s)), old)
         ELSE <<s[1]>> \o replace(Tail(s), old)

RECURSIVE lstrip(_)
lstrip(s) ==
    IF Len(s) > 0 /\ s[1].c \in Whitespace THEN lstrip(Tail(s)) ELSE s

RECURSIVE rstrip(_)
rstrip(s) ==
    IF Len(s) > 0 /\ s[Len(s)].c \in Whitespace
    THEN rstrip(SubSeq(s, 1, Len(s) - 1)) ELSE s

strip(s) == rstrip(lstrip(s))

Digit(d) == <<"0", "1", "2", "3", "4", "5", "6", "7", "8", "9">>[d + 1]

\* str(n) of an int
RECURSIVE str_nat(_)
str_nat(n) ==
    IF n < 10 THEN <<Digit(n)>> ELSE str_nat(n \div 10) \o <<Digit(n % 10)>>

str(n) == IF n < 0 THEN <<"-">> \o str_nat(0 - n) ELSE str_nat(n)

\* str.zfill(width): zeros go after a leading sign
RECURSIVE Zeros(_)
Zeros(k) == IF k <= 0 THEN <<>> ELSE <<"0">> \o Zeros(k - 1)

zfill_none(s, width) == s

zfill(s, width) ==
    IF Len(s) > 0 /\ s[1] \in {"+", "-"}
    THEN <<s[1]>> \o Zeros(width - Len(s)) \o Tail(s)
    ELSE Zeros(width - Len(s)) \o s

\* index of the first terminator in a byte sequence, 0 when there is none
FirstTerm(s) ==
    IF \E i \in 1..Len(s) : s[i].c = term_char
    THEN CHOOSE i \in 1..Len(s) :
            s[i].c = term_char /\ \A j \in 1..(i - 1) : s[j].c # term_char
    ELSE 0

\* --------------------------------------------------------------- commands
SimpleCommand(m) ==
    CASE m = "ping"          -> <<"!">>
      [] m = "disable_echo"  -> <<"D", "E">>
      [] m = "enable_echo"   -> <<"E", "E">>
      [] m = "leak_detected" -> <<"R", "L", "E", "A", "K">>
      [] m = "is_interlocked" -> <<"R", "I", "N", "T", "R">>
      [] m = "pumps_enabled" -> <<"R", "O", "N", "O", "F">>
      [] m = "pump_status"   -> <<"R", "P", "U", "M", "P">>
      [] m \in {"unit_hours", "pump1_hours", "pump2_hours"}
                             -> <<"R", "H", "O", "U", "R">>
      [] m \in {"serial_number", "boot_ups", "compile_date"}
                             -> <<"R", "F", "I", "N", "F">>

SpecMethods == {"ping"}

\* ----------------------------------------------------------------- device
\* what the unit answers to a command line (without the echo)
DeviceBodies(line) ==
    IF line = <<"!", term_char>> THEN {<<"W", "A", "Z", "O", "O", "!">>}
    ELSE IF line \in {<<"R", "L", "E", "A", "K", term_char>>,
                      <<"R", "I", "N", "T", "R", term_char>>,
                      <<"R", "O", "N", "O", "F", term_char>>}
    THEN {<<"0">>, <<"1">>, <<"2">>}
    ELSE IF line = <<"R", "P", "U", "M", "P", term_char>>
    THEN {<<"1", ",", "2">>, <<"1">>, <<"1", ",", "2", ",", "0">>,
          <<"1", ",", "x">>}
    ELSE IF line = <<"R", "H", "O", "U", "R", term_char>>
    THEN {<<"7", " ", "8", " ", "9">>, <<"7", " ", "8">>,
          <<"7", " ", "8", " ", "9", " ", "4">>}
    ELSE IF line = <<"R", "F", "I", "N", "F", term_char>>
    THEN {<<"a", " ", "b", " ", "3", " ", "d", " ", "e", " ", "f">>,
          <<"a", " ", "b", " ", "3", " ", "d", " ", "e">>,
          <<"a", " ", "b", " ", "3", " ", "d", " ", "e", " ", "f", " ", "g">>}
    ELSE {<<>>}

DeviceReply(line, body, e, q) ==
    Tag((IF e THEN line ELSE <<>>) \o body \o <<term_char>>, q)

DeviceEcho(line, e) ==
    IF line = <<"D", "E", term_char>> THEN FALSE
    ELSE IF line = <<"E", "E", term_char>> THEN TRUE
    ELSE e

\* ------------------------------------------------------------------ state
\* an argument value: its Python type and its value in thousandths
\* an argument: its type, its value in thousandths if a number, its text if a str
NoArg == [ty |-> "none", milli |-> 0, s |-> <<>>]

IntArg(n) == [ty |-> "int", milli |-> 1000 * n, s |-> <<>>]

FloatArg(milli) == [ty |-> "float", milli |-> milli, s |-> <<>>]

StrArg(s) == [ty |-> "str", milli |-> 0, s |-> s]

NoCall == [m |-> "none", arg |-> NoArg, q |-> 0, query |-> <<>>, newh |-> None,
           exc |-> "none", ret |-> <<>>]

NoOutcome == [m |-> "none", arg |-> NoArg, q |-> 0, status |-> "none",
              ret |-> <<>>, val |-> <<>>]

\* After HEUv3(): no connection, and the device's echo option is whatever the
\* last DE or EE left it.  After HEUv3(port) with the port opened, DE obeyed
\* and the ping answered: handle 1 is the connection and echo is off.
InitDriver ==
    /\ \/ /\ serial_port = None
          /\ hstate = [h \in Handles |-> "none"]
          /\ nh = 0
          /\ echo \in BOOLEAN
       \/ /\ serial_port = 1
          /\ hstate = [h \in Handles |-> IF h = 1 THEN "open" ELSE "none"]
          /\ nh = 1
          /\ echo = FALSE
    /\ lock = 0
    /\ pc = [t \in Threads |-> "idle"]
    /\ cur = [t \in Threads |-> NoCall]
    /\ outcome = [t \in Threads |-> NoOutcome]
    /\ inbuf = [h \in Handles |-> <<>>]
    /\ pending = [h \in Handles |-> <<>>]
    /\ wire = <<>>
    /\ nops = 0
    /\ nq = 0
    /\ lastOpenFailed = FALSE
    /\ commFailed = FALSE
    /\ apiWire = <<>>
    /\ apiOutcome = NoOutcome

Init == InitDriver /\ instrument = FALSE

Entry(t, op, h, data, res) ==
    [q |-> cur[t].q, t |-> t, m |-> cur[t].m, arg |-> cur[t].arg, op |-> op,
     h |-> h, data |-> data, res |-> res]

Return(t, status, ret, val) ==
    /\ pc' = [pc EXCEPT ![t] = "idle"]
    /\ outcome' = [outcome EXCEPT ![t] =
            [m |-> cur[t].m, arg |-> cur[t].arg, q |-> cur[t].q,
             status |-> status, ret |-> ret, val |-> val]]
    /\ cur' = [cur EXCEPT ![t] = NoCall]

Finish(t, status, ret) == Return(t, status, ret, <<>>)

\* ------------------------------------------------------------ accessors
\* str.split(sep), sep one character: the pieces between the separators
SepAt(s, sep) == {i \in DOMAIN s : s[i].c = sep}

\* the position of the k-th separator; 0 before the first, Len + 1 after the
\* last
SepPos(s, sep, k) ==
    IF k = 0 THEN 0
    ELSE IF k > Cardinality(SepAt(s, sep)) THEN Len(s) + 1
    ELSE CHOOSE i \in SepAt(s, sep) :
             Cardinality({j \in SepAt(s, sep) : j < i}) = k - 1

split(s, sep) ==
    [k \in 1..(Cardinality(SepAt(s, sep)) + 1) |->
        SubSeq(s, SepPos(s, sep, k - 1) + 1, SepPos(s, sep, k) - 1)]

DigitValue(c) == CHOOSE d \in 0..9 : Digit(d) = c

RECURSIVE nat_of(_)
nat_of(d) ==
    IF Len(d) = 0 THEN 0
    ELSE 10 * nat_of(SubSeq(d, 1, Len(d) - 1)) + DigitValue(d[Len(d)])

\* int(text): white space around the number is ignored, a sign is allowed;
\* anything else raises ValueError
int_of(b) ==
    IF Len(b) > 0 /\ b[1] \in {"+", "-"}
    THEN IF Len(b) > 1 /\ \A i \in 2..Len(b) : b[i] \in {Digit(k) : k \in 0..9}
         THEN [status |-> "ok",
               val |-> << IF b[1] = "-" THEN 0 - nat_of(Tail(b))
                          ELSE nat_of(Tail(b)) >>]
         ELSE [status |-> "ValueError", val |-> <<>>]
    ELSE IF Len(b) > 0 /\ \A i \in DOMAIN b : b[i] \in {Digit(k) : k \in 0..9}
         THEN [status |-> "ok", val |-> << nat_of(b) >>]
         ELSE [status |-> "ValueError", val |-> <<>>]

int(s) == CHOOSE v \in {int_of(b) : b \in {Txt(strip(s))}} : TRUE

\* f[k], f the list response.split(sep), and int() of it for an int accessor
Field(f, k, asInt) ==
    IF k + 1 > Len(f) THEN [status |-> "IndexError", val |-> <<>>]
    ELSE IF asInt THEN int(f[k + 1])
    ELSE [status |-> "ok", val |-> << Txt(f[k + 1]) >>]

\* response == '1'
IsOne(s) == [status |-> "ok", val |-> << (Txt(s) = <<"1">>) >>]

\* the fields an accessor reads, in the order it reads them: the first
\* failure is the call's, else the values are
FieldsOf(r) ==
    IF \E i \in DOMAIN r : r[i].status # "ok"
    THEN r[CHOOSE i \in DOMAIN r :
               /\ r[i].status # "ok"
               /\ \A j \in 1..(i - 1) : r[j].status = "ok"]
    ELSE [status |-> "ok", val |-> [i \in DOMAIN r |-> r[i].val[1]]]

\* fields ks of response.split(sep) (f is the one value of the split)
Fields(s, sep, ks, asInt) ==
    CHOOSE v \in {FieldsOf([i \in DOMAIN ks |-> Field(f, ks[i], asInt)]) :
                     f \in {split(s, sep)}} : TRUE

\* what the method makes of the text _send_query returned: the status of the
\* call and the value returned
Accessor(m, s) ==
    CASE m = "is_interlocked" ->
              [status |-> "ok", val |-> << (Txt(s) = <<"0">>) >>]
      [] m \in {"leak_detected", "pumps_enabled"} -> IsOne(s)
      [] m = "pump_status"   -> Fields(s, ",", <<0, 1>>, TRUE)
      [] m = "unit_hours"    -> Fields(s, " ", <<0>>, TRUE)
      [] m = "pump1_hours"   -> Fields(s, " ", <<1>>, TRUE)
      [] m = "pump2_hours"   -> Fields(s, " ", <<2>>, TRUE)
      [] m = "serial_number" -> Fields(s, " ", <<0>>, FALSE)
      [] m = "boot_ups"      -> Fields(s, " ", <<2>>, TRUE)
      [] m = "compile_date"  -> Fields(s, " ", <<5>>, FALSE)
      [] OTHER               -> [status |-> "ok", val |-> <<>>]

\* ------------------------------------------------------------ _send_query
\* a method that passes a fixed command to _send_query
CallSimple(t, m) ==
    /\ pc[t] = "idle"
    /\ nops < MaxOps
    /\ nops' = nops + 1
    /\ nq' = nq + 1
    /\ cur' = [cur EXCEPT ![t] = [NoCall EXCEPT !.m = m, !.q = nq + 1,
                                                !.query = SimpleCommand(m)]]
    /\ pc' = [pc EXCEPT ![t] = "check"]
    /\ UNCHANGED apiVars
    /\ UNCHANGED <<serial_port, lock, outcome, hstate, inbuf, pending, echo,
                   wire, nh, lastOpenFailed, commFailed>>

\* a call of _send_query itself with the command c
send_query(t, c) ==
    /\ pc[t] = "idle"
    /\ nops < MaxOps
    /\ nops' = nops + 1
    /\ nq' = nq + 1
    /\ cur' = [cur EXCEPT ![t] = [NoCall EXCEPT !.m = "_send_query",
                                                !.arg = StrArg(c),
                                                !.q = nq + 1, !.query = c]]
    /\ pc' = [pc EXCEPT ![t] = "check"]
    /\ UNCHANGED apiVars
    /\ UNCHANGED <<serial_port, lock, outcome, hstate, inbuf, pending, echo,
                   wire, nh, lastOpenFailed, commFailed>>

\* self.serial_port is a Serial object whose is_open is true
Connected_noIsOpen == serial_port # None

Connected == serial_port # None /\ hstate[serial_port] = "open"

\* the port a transport call of the critical section acts on is open
PortOpen == serial_port # None /\ hstate[serial_port] = "open"

Framed_always(query) == query \o <<term_char>>

Framed(query) ==
    IF endswith(query, term_char) THEN query ELSE query \o <<term_char>>

send_query_check(t) ==
    /\ pc[t] = "check"
    /\ IF ~Connected
       THEN Finish(t, "RuntimeError", <<>>)
       ELSE /\ cur' = [cur EXCEPT ![t].query = Framed(cur[t].query)]
            /\ pc' = [pc EXCEPT ![t] = "acquire"]
            /\ UNCHANGED outcome
    /\ UNCHANGED apiVars
    /\ UNCHANGED <<serial_port, lock, hstate, inbuf, pending, echo, wire,
                   nops, nq, nh, lastOpenFailed, commFailed>>

\* Lock.acquire() blocks until the lock is free
CanAcquire_always == TRUE

CanAcquire == lock = 0

\* the step that follows a step of the with block that did not raise
Then_writeFirst(op) ==
    CASE op = "acquire" -> "write"
      [] op = "write"   -> "reset"
      [] op = "reset"   -> "read"
      [] op = "read"    -> "release"

Then_nestedQuery(op) ==
    CASE op = "acquire" -> "reset"
      [] op = "reset"   -> "write"
      [] op = "write"   -> "read"
      [] op = "read"    -> "acquire"

Then(op) ==
    CASE op = "acquire" -> "reset"
      [] op = "reset"   -> "write"
      [] op = "write"   -> "read"
      [] op = "read"    -> "release"

lock_acquire(t) ==
    /\ pc[t] = "acquire"
    /\ CanAcquire
    /\ lock' = t
    /\ pc' = [pc EXCEPT ![t] = Then("acquire")]
    /\ wire' = Append(wire, Entry(t, "acquire", None, <<>>, "ok"))
    /\ UNCHANGED apiVars
    /\ UNCHANGED <<serial_port, cur, outcome, hstate, inbuf, pending, echo,
                   nops, nq, nh, lastOpenFailed, commFailed>>

\* an operation of the critical section raises: control leaves the try block
Raise_retry(t, exc) == UNCHANGED <<cur, pc>>

Raise(t, exc) ==
    /\ cur' = [cur EXCEPT ![t].exc = exc]
    /\ pc' = [pc EXCEPT ![t] = "release"]

\* a call on self.serial_port that cannot reach an open port
\* (None has no such method; a closed Serial raises PortNotOpenError)
NoPort(t, op) ==
    IF serial_port = None
    THEN /\ Raise(t, "AttributeError")
         /\ UNCHANGED wire
    ELSE /\ Raise(t, "PortNotOpenError")
         /\ wire' = Append(wire, Entry(t, op, serial_port, <<>>, "closed"))

\* what reset_input_buffer leaves of the input buffer
Discard_nothing(buf) == buf

Discard(buf) == <<>>

reset_input_buffer(t) ==
    /\ pc[t] = "reset"
    /\ IF ~PortOpen
       THEN NoPort(t, "reset") /\ UNCHANGED inbuf
       ELSE /\ inbuf' = [inbuf EXCEPT ![serial_port] = Discard(@)]
            /\ wire' = Append(wire, Entry(t, "reset", serial_port,
                                          inbuf[serial_port], "ok"))
            /\ pc' = [pc EXCEPT ![t] = Then("reset")]
            /\ UNCHANGED cur
    /\ UNCHANGED apiVars
    /\ UNCHANGED <<serial_port, lock, outcome, hstate, pending, echo,
                   nops, nq, nh, lastOpenFailed, commFailed>>

write(t) ==
    /\ pc[t] = "write"
    /\ IF ~PortOpen
       THEN NoPort(t, "write") /\ UNCHANGED <<pending, echo>>
       ELSE /\ \E body \in DeviceBodies(cur[t].query) :
                    pending' = [pending EXCEPT ![serial_port] =
                        @ \o DeviceReply(cur[t].query, body, echo, cur[t].q)]
            /\ echo' = DeviceEcho(cur[t].query, echo)
            /\ wire' = Append(wire, Entry(t, "write", serial_port,
                                   Tag(cur[t].query, cur[t].q), "ok"))
            /\ pc' = [pc EXCEPT ![t] = Then("write")]
            /\ UNCHANGED cur
    /\ UNCHANGED apiVars
    /\ UNCHANGED <<serial_port, lock, outcome, hstate, inbuf,
                   nops, nq, nh, lastOpenFailed, commFailed>>

\* read_until returns at the terminator, or at the timeout with what has come
read_until(t) ==
    /\ pc[t] = "read"
    /\ IF ~PortOpen
       THEN NoPort(t, "read") /\ UNCHANGED inbuf
       ELSE LET buf == inbuf[serial_port]
                k == FirstTerm(buf)
                raw == IF k = 0 THEN buf ELSE SubSeq(buf, 1, k)
                rest == IF k = 0 THEN <<>> ELSE SubSeq(buf, k + 1, Len(buf))
            IN /\ inbuf' = [inbuf EXCEPT ![serial_port] = rest]
               /\ wire' = Append(wire, Entry(t, "read", serial_port, raw,
                                   IF k = 0 THEN "timeout" ELSE "ok"))
               /\ cur' = [cur EXCEPT ![t].ret = strip(replace(raw, cur[t].query))]
               /\ pc' = [pc EXCEPT ![t] = Then("read")]
    /\ UNCHANGED apiVars
    /\ UNCHANGED <<serial_port, lock, outcome, hstate, pending, echo,
                   nops, nq, nh, lastOpenFailed, commFailed>>

\* the transport fails under the operation the caller is at
\* (write timeout: SerialTimeoutException; link fault: SerialException)
transport_error(t, exc) ==
    /\ pc[t] \in {"reset", "write", "read"}
    /\ PortOpen
    /\ exc = "SerialTimeoutException" => pc[t] = "write"
    /\ Raise(t, exc)
    /\ wire' = Append(wire, Entry(t, pc[t], serial_port, <<>>, exc))
    /\ UNCHANGED apiVars
    /\ UNCHANGED <<serial_port, lock, outcome, hstate, inbuf, pending, echo,
                   nops, nq, nh, lastOpenFailed, commFailed>>

\* the lock after the with block is left, by return or by the re-raised
\* exception
Released_onReturnOnly(t) == IF cur[t].exc = "none" THEN 0 ELSE t

Released(t) == 0

lock_release(t) ==
    /\ pc[t] = "release"
    /\ lock' = Released(t)
    /\ wire' = Append(wire, Entry(t, "release", None, <<>>, "ok"))
    /\ IF cur[t].exc = "none"
       THEN /\ Return(t, Accessor(cur[t].m, cur[t].ret).status, cur[t].ret,
                       Accessor(cur[t].m, cur[t].ret).val)
            /\ UNCHANGED commFailed
       ELSE /\ Finish(t, cur[t].exc, <<>>)
            /\ commFailed' = (commFailed \/ cur[t].exc \in
                    {"SerialException", "SerialTimeoutException", "PortNotOpenError"})
    /\ UNCHANGED apiVars
    /\ UNCHANGED <<serial_port, hstate, inbuf, pending, echo,
                   nops, nq, nh, lastOpenFailed>>

\* --------------------------------------------------------- open_connection
\* serial.Serial(...) is evaluated first: it opens the port or raises
open_Serial(t, ok) ==
    /\ pc[t] = "idle"
    /\ nops < MaxOps
    /\ nh < MaxHandles
    /\ nops' = nops + 1
    /\ IF ok
       THEN /\ nh' = nh + 1
            /\ hstate' = [hstate EXCEPT ![nh + 1] = "open"]
            /\ cur' = [cur EXCEPT ![t] =
                    [NoCall EXCEPT !.m = "open_connection", !.newh = nh + 1]]
            /\ pc' = [pc EXCEPT ![t] = "assign"]
       ELSE /\ cur' = [cur EXCEPT ![t] = [NoCall EXCEPT !.m = "open_connection"]]
            /\ pc' = [pc EXCEPT ![t] = "except"]
            /\ UNCHANGED <<nh, hstate>>
    /\ UNCHANGED apiVars
    /\ UNCHANGED <<serial_port, lock, outcome, inbuf, pending, echo, wire,
                   nq, lastOpenFailed, commFailed>>

\* the value self.serial_port takes when the open has failed
FailedPort_unchanged == serial_port

FailedPort == None

\* the assignment to self.serial_port, in the try block or in the handler
open_assign(t) ==
    /\ pc[t] \in {"assign", "except"}
    /\ IF pc[t] = "assign"
       THEN /\ serial_port' = cur[t].newh
            /\ lastOpenFailed' = FALSE
            /\ commFailed' = FALSE
            /\ Finish(t, "ok", <<>>)
       ELSE /\ serial_port' = FailedPort
            /\ lastOpenFailed' = TRUE
            /\ UNCHANGED commFailed
            /\ Finish(t, "failed", <<>>)
    /\ UNCHANGED apiVars
    /\ UNCHANGED <<lock, hstate, inbuf, pending, echo, wire, nops, nq, nh>>

\* a Serial object nothing refers to any more is finalized, which closes it
finalize(h) ==
    /\ hstate[h] = "open"
    /\ serial_port # h
    /\ \A t \in Threads : cur[t].newh # h
    /\ hstate' = [hstate EXCEPT ![h] = "closed"]
    /\ UNCHANGED apiVars
    /\ UNCHANGED <<serial_port, lock, pc, cur, outcome, inbuf, pending, echo,
                   wire, nops, nq, nh, lastOpenFailed, commFailed>>

\* -------------------------------------------------------------- transport
\* close() of the connection: releases the handle, idempotent
close(t) ==
    /\ pc[t] = "idle"
    /\ nops < MaxOps
    /\ serial_port # None
    /\ nops' = nops + 1
    /\ hstate' = [hstate EXCEPT ![serial_port] = "closed"]
    /\ UNCHANGED apiVars
    /\ UNCHANGED <<serial_port, lock, pc, cur, outcome, inbuf, pending, echo,
                   wire, nq, nh, lastOpenFailed, commFailed>>

\* the device's bytes reach the input buffer: a whole line, or a line
\* without its terminator when the rest is late
deliver(h, whole) ==
    /\ hstate[h] = "open"
    /\ pending[h] # <<>>
    /\ LET k == FirstTerm(pending[h])
           n == IF whole \/ k = 1 THEN k ELSE k - 1
       IN /\ inbuf' = [inbuf EXCEPT ![h] =
                 @ \o SubSeq(pending[h], 1, n)]
          /\ pending' = [pending EXCEPT ![h] = SubSeq(@, n + 1, Len(@))]
    /\ UNCHANGED apiVars
    /\ UNCHANGED <<serial_port, lock, pc, cur, outcome, hstate, echo, wire,
                   nops, nq, nh, lastOpenFailed, commFailed>>

\* ------------------------------------------------------ pump_speed setter
IsInt(v) == v.ty = "int"

IntOf(v) == v.milli \div 1000

\* 0 <= value <= 999
ValidSpeed_upTo1000(n) == 0 <= n /\ n <= 1000

ValidSpeed(n) == 0 <= n /\ n <= 999

SpeedCommand(n) == <<"S", "P", "S">> \o zfill(str(n), 3)

pump_speed_set(t, v) ==
    /\ pc[t] = "idle"
    /\ nops < MaxOps
    /\ nops' = nops + 1
    /\ nq' = nq + 1
    /\ LET call == [NoCall EXCEPT !.m = "pump_speed", !.arg = v, !.q = nq + 1]
           done(status) ==
               /\ outcome' = [outcome EXCEPT ![t] =
                      [NoOutcome EXCEPT !.m = "pump_speed", !.arg = v,
                                        !.q = nq + 1, !.status = status]]
               /\ UNCHANGED <<pc, cur>>
       IN IF ~IsInt(v) THEN done("TypeError")
          ELSE IF ~ValidSpeed(IntOf(v)) THEN done("ValueError")
          ELSE /\ cur' = [cur EXCEPT ![t] =
                      [call EXCEPT !.query = SpeedCommand(IntOf(v))]]
               /\ pc' = [pc EXCEPT ![t] = "check"]
               /\ UNCHANGED outcome
    /\ UNCHANGED apiVars
    /\ UNCHANGED <<serial_port, lock, hstate, inbuf, pending, echo, wire, nh,
                   lastOpenFailed, commFailed>>

\* ------------------------------------------------------- other setters
\* a setter after its validation: the argument error ends the call, a valid
\* argument goes to _send_query with the command built from it
Setter(t, m, v, err, command) ==
    /\ pc[t] = "idle"
    /\ nops < MaxOps
    /\ nops' = nops + 1
    /\ nq' = nq + 1
    /\ IF err # "none"
       THEN /\ outcome' = [outcome EXCEPT ![t] =
                   [NoOutcome EXCEPT !.m = m, !.arg = v, !.q = nq + 1,
                                     !.status = err]]
            /\ UNCHANGED <<pc, cur>>
       ELSE /\ cur' = [cur EXCEPT ![t] =
                   [NoCall EXCEPT !.m = m, !.arg = v, !.q = nq + 1,
                                  !.query = command]]
            /\ pc' = [pc EXCEPT ![t] = "check"]
            /\ UNCHANGED outcome
    /\ UNCHANGED apiVars
    /\ UNCHANGED <<serial_port, lock, hstate, inbuf, pending, echo, wire, nh,
                   lastOpenFailed, commFailed>>

\* isinstance(value, (int | float))
IsNumber(v) == v.ty \in {"int", "float"}

\* f'{value:.2f}': the nearest hundredth.  A value that is halfway between
\* two hundredths in decimal is not so in binary, and the binary value
\* decides the side: up tells which.
Round2(milli, up) ==
    IF milli % 10 > 5 \/ (milli % 10 = 5 /\ up)
    THEN milli \div 10 + 1 ELSE milli \div 10

Format2f(milli, up) ==
    str(Round2(milli, up) \div 100) \o <<".">>
        \o zfill(str(Round2(milli, up) % 100), 2)

\* 0.5 <= value < 10
ValidMinFlow_upTo10(milli) == 500 <= milli /\ milli <= 10000

ValidMinFlow(milli) == 500 <= milli /\ milli < 10000

MinFlowError(v) ==
    IF ~IsNumber(v) THEN "TypeError"
    ELSE IF ~ValidMinFlow(v.milli) THEN "ValueError"
    ELSE "none"

MinFlowCommand(v, up) == <<"S", "M", "I", "N", "F">> \o Format2f(v.milli, up)

min_flow_interlock_set(t, v, up) ==
    Setter(t, "min_flow_interlock", v, MinFlowError(v), MinFlowCommand(v, up))

\* 5 <= value <= 65
ValidMaxTemp(milli) == 5000 <= milli /\ milli <= 65000

MaxTempError(v) ==
    IF ~IsNumber(v) THEN "TypeError"
    ELSE IF ~ValidMaxTemp(v.milli) THEN "ValueError"
    ELSE "none"

\* int(value) of a value that is not negative: towards zero
MaxTempCommand(v) ==
    <<"S", "M", "A", "X", "T">> \o zfill(str(v.milli \div 1000), 2)

max_temp_interlock_set(t, v) ==
    Setter(t, "max_temp_interlock", v, MaxTempError(v), MaxTempCommand(v))

\* f'SPONO{pump}' of an int
SelectPumpsCommand(v) == <<"S", "P", "O", "N", "O">> \o str(IntOf(v))

select_pumps(t, v) ==
    Setter(t, "select_pumps", v, "none", SelectPumpsCommand(v))

\* ---------------------------------------------------------- pyvisa variant
\* send_query: the message handed to instrument.query, or <<>> when there is
\* no such call
ApiSent(command) ==
    IF ~instrument THEN <<>>
    ELSE IF ~endswith(command, "\n") THEN <<command \o <<"\n">>>>
    ELSE <<>>

api_send_query(m, v, command, resp, fault) ==
    /\ apiWire' = apiWire \o ApiSent(command)
    /\ apiOutcome' = [NoOutcome EXCEPT !.m = m, !.arg = v,
            !.q = apiOutcome.q + 1,
            !.status = IF ApiSent(command) = <<>> THEN "None"
                       ELSE IF fault THEN "ConnectionError" ELSE "ok",
            !.ret = IF ApiSent(command) = <<>> \/ fault THEN <<>> ELSE resp]

\* a call of send_query itself with the command c
api_send_query_call(c, resp, fault) ==
    /\ api_send_query("send_query", StrArg(c), c, resp, fault)
    /\ UNCHANGED instrument
    /\ UNCHANGED <<serial_port, lock, pc, cur, outcome, hstate, inbuf, pending,
                   echo, wire, nops, nq, nh, lastOpenFailed, commFailed>>

\* what instrument.query can return
ApiResponses == {<<>>, <<"1">>}

\* set_point < 0 or set_point > 999 is refused
ApiValidSpeed(n) == ~(n < 0 \/ n > 999)

api_set_pump_speed(v, resp, fault) ==
    /\ apiOutcome.m = "none"
    /\ IF ~IsInt(v) \/ ~ApiValidSpeed(IntOf(v))
       THEN /\ apiOutcome' = [NoOutcome EXCEPT !.m = "set_pump_speed", !.arg = v,
                   !.status = IF ~IsInt(v) THEN "TypeError" ELSE "ValueError"]
            /\ UNCHANGED apiWire
       ELSE api_send_query("set_pump_speed", v, SpeedCommand(IntOf(v)), resp, fault)
    /\ UNCHANGED instrument
    /\ UNCHANGED <<serial_port, lock, pc, cur, outcome, hstate, inbuf, pending,
                   echo, wire, nops, nq, nh, lastOpenFailed, commFailed>>

\* set_point < 0.5 or set_point > 10 is refused
ApiValidMinFlow(milli) == ~(milli < 500 \/ milli > 10000)

\* the comparison of a str with 0.5 raises TypeError; an int is made a float
\* and formatted as a float is
api_set_min_flow_interlock(v, up, resp, fault) ==
    /\ apiOutcome.m = "none"
    /\ IF ~IsNumber(v) \/ ~ApiValidMinFlow(v.milli)
       THEN /\ apiOutcome' = [NoOutcome EXCEPT !.m = "set_min_flow_interlock",
                   !.arg = v,
                   !.status = IF ~IsNumber(v) THEN "TypeError" ELSE "ValueError"]
            /\ UNCHANGED apiWire
       ELSE api_send_query("set_min_flow_interlock", v, MinFlowCommand(v, up),
                           resp, fault)
    /\ UNCHANGED instrument
    /\ UNCHANGED <<serial_port, lock, pc, cur, outcome, hstate, inbuf, pending,
                   echo, wire, nops, nq, nh, lastOpenFailed, commFailed>>

Next ==
    \/ \E t \in Threads, m \in SpecMethods : CallSimple(t, m)
    \/ \E t \in Threads : send_query_check(t)
    \/ \E t \in Threads : lock_acquire(t)
    \/ \E t \in Threads : reset_input_buffer(t)
    \/ \E t \in Threads : write(t)
    \/ \E t \in Threads : read_until(t)
    \/ \E t \in Threads, exc \in {"SerialException", "SerialTimeoutException"} :
            transport_error(t, exc)
    \/ \E t \in Threads : lock_release(t)
    \/ \E t \in Threads, ok \in BOOLEAN : open_Serial(t, ok)
    \/ \E t \in Threads : open_assign(t)
    \/ \E h \in Handles : finalize(h)
    \/ \E t \in Threads : close(t)
    \/ \E h \in Handles, whole \in BOOLEAN : deliver(h, whole)

Spec == Init /\ [][Next]_vars

\* ------------------------------------------------- one setter call at a time
\* the ints of the valid range and SpeedMargin more on each side, and a float
SpeedInputs ==
    {IntArg(n) : n \in (0 - SpeedMargin)..(999 + SpeedMargin)}
        \cup {FloatArg(42500)}

\* the hundredths of the valid range and FlowMargin more on each side, values
\* between two hundredths near the ends of the range, ints, and a str
FlowInputs ==
    {FloatArg(10 * c) : c \in (50 - FlowMargin)..(1000 + FlowMargin)}
        \cup {FloatArg(k) : k \in {495, 499, 501, 505, 9985, 9991, 9994, 9995,
                                    9996, 9999, 10001}}
        \cup {IntArg(n) : n \in 0..(10 + FlowMargin)}
        \cup {StrArg(<<"5">>)}

\* the ints of the valid range and TempMargin more on each side, floats
\* inside and outside the range, and a str
TempInputs ==
    {IntArg(n) : n \in (5 - TempMargin)..(65 + TempMargin)}
        \cup {FloatArg(k) : k \in {4900, 5000, 5500, 64900, 65000, 65500}}
        \cup {StrArg(<<"5">>)}

PumpInputs == {IntArg(n) : n \in (0 - PumpMargin)..(2 + PumpMargin)}

InitSetters == InitDriver /\ instrument \in BOOLEAN

\* one call of one setter, on the serial driver or on the pyvisa variant
NextSetters ==
    \/ /\ nops = 0
       /\ apiOutcome.m = "none"
       /\ \E v \in SpeedInputs : pump_speed_set(1, v)
    \/ /\ nops = 0
       /\ apiOutcome.m = "none"
       /\ \E v \in FlowInputs, up \in BOOLEAN : min_flow_interlock_set(1, v, up)
    \/ /\ nops = 0
       /\ apiOutcome.m = "none"
       /\ \E v \in TempInputs : max_temp_interlock_set(1, v)
    \/ /\ nops = 0
       /\ apiOutcome.m = "none"
       /\ \E v \in PumpInputs : select_pumps(1, v)
    \/ \E t \in Threads : send_query_check(t)
    \/ \E t \in Threads : lock_acquire(t)
    \/ \E t \in Threads : reset_input_buffer(t)
    \/ \E t \in Threads : write(t)
    \/ \E t \in Threads : read_until(t)
    \/ \E t \in Threads, exc \in {"SerialException", "SerialTimeoutException"} :
            transport_error(t, exc)
    \/ \E t \in Threads : lock_release(t)
    \/ \E h \in Handles, whole \in BOOLEAN : deliver(h, whole)
    \/ /\ nops = 0
       /\ apiOutcome.m = "none"
       /\ \E v \in SpeedInputs, resp \in ApiResponses, fault \in BOOLEAN :
              api_set_pump_speed(v, resp, fault)
    \/ /\ nops = 0
       /\ apiOutcome.m = "none"
       /\ \E v \in FlowInputs, up \in BOOLEAN, resp \in ApiResponses,
             fault \in BOOLEAN :
              api_set_min_flow_interlock(v, up, resp, fault)

SpecSetters == InitSetters /\ [][NextSetters]_vars

\* ------------------------------------------- a command, then command + terminator
FramingCommands(term) == {<<>>, <<"!">>, <<"D", "E">>, <<"!", term>>}

\* _send_query(c) and then _send_query(c + terminator), on the serial driver
\* or on the pyvisa variant
NextFraming ==
    \/ /\ nops = 0
       /\ apiOutcome.m = "none"
       /\ \E c \in FramingCommands(term_char) : send_query(1, c)
    \/ /\ nops = 1
       /\ outcome[1].m = "_send_query"
       /\ send_query(1, outcome[1].arg.s \o <<term_char>>)
    \/ \E t \in Threads : send_query_check(t)
    \/ \E t \in Threads : lock_acquire(t)
    \/ \E t \in Threads : reset_input_buffer(t)
    \/ \E t \in Threads : write(t)
    \/ \E t \in Threads : read_until(t)
    \/ \E t \in Threads, exc \in {"SerialException", "SerialTimeoutException"} :
            transport_error(t, exc)
    \/ \E t \in Threads : lock_release(t)
    \/ \E h \in Handles, whole \in BOOLEAN : deliver(h, whole)
    \/ /\ nops = 0
       /\ apiOutcome.m = "none"
       /\ \E c \in FramingCommands("\n"), resp \in ApiResponses, fault \in BOOLEAN :
              api_send_query_call(c, resp, fault)
    \/ /\ apiOutcome.m = "send_query"
       /\ apiOutcome.q = 1
       /\ \E resp \in ApiResponses, fault \in BOOLEAN :
              api_send_query_call(apiOutcome.arg.s \o <<"\n">>, resp, fault)

SpecFraming == InitSetters /\ [][NextFraming]_vars

\* ------------------------------------------------------------- scheduling
\* the statement of _send_query a thread is at, when it is not waiting for
\* the lock
proceed(t) ==
    \/ send_query_check(t)
    \/ reset_input_buffer(t)
    \/ write(t)
    \/ read_until(t)
    \/ lock_release(t)

\* a thread goes on running: the statement it is at is executed, a transport
\* call returning or raising within its timeout; a thread waiting for the
\* lock gets it if the lock is free again and again
Fairness ==
    \A t \in Threads : WF_vars(proceed(t)) /\ SF_vars(lock_acquire(t))

\* callers of a composite accessor (hour_meters, then split and int), on a
\* connection that stays as it is
LiveMethods == {"unit_hours"}

NextLive ==
    \/ \E t \in Threads, m \in LiveMethods : CallSimple(t, m)
    \/ \E t \in Threads : send_query_check(t)
    \/ \E t \in Threads : lock_acquire(t)
    \/ \E t \in Threads : reset_input_buffer(t)
    \/ \E t \in Threads : write(t)
    \/ \E t \in Threads : read_until(t)
    \/ \E t \in Threads, exc \in {"SerialException", "SerialTimeoutException"} :
            transport_error(t, exc)
    \/ \E t \in Threads : lock_release(t)
    \/ \E h \in Handles, whole \in BOOLEAN : deliver(h, whole)

SpecLive == Init /\ [][NextLive]_vars /\ Fairness

\* ------------------------------------------------------------ HEUv3(port)
\* __init__ with a port, up to the return of open_connection: the port is
\* opened and assigned, or the open fails and the handler assigns None
init_open(ok) ==
    /\ pc[1] = "idle"
    /\ outcome[1].m = "none"
    /\ nops = 0
    /\ nh < MaxHandles
    /\ IF ok
       THEN /\ nh' = nh + 1
            /\ hstate' = [hstate EXCEPT ![nh + 1] = "open"]
            /\ serial_port' = nh + 1
            /\ lastOpenFailed' = FALSE
       ELSE /\ serial_port' = FailedPort
            /\ lastOpenFailed' = TRUE
            /\ UNCHANGED <<nh, hstate>>
    /\ outcome' = [outcome EXCEPT ![1] =
            [NoOutcome EXCEPT !.m = "open_connection",
                              !.status = IF ok THEN "ok" ELSE "failed"]]
    /\ UNCHANGED apiVars
    /\ UNCHANGED <<lock, pc, cur, inbuf, pending, echo, wire, nops, nq,
                   commFailed>>

\* the fields after the first lines of __init__
InitConstruct == InitDriver /\ serial_port = None /\ instrument = FALSE

\* open_connection, then disable_echo, then ping; an exception ends __init__
NextConstruct ==
    \/ \E ok \in BOOLEAN : init_open(ok)
    \/ /\ outcome[1].m = "open_connection"
       /\ CallSimple(1, "disable_echo")
    \/ /\ outcome[1].m = "disable_echo"
       /\ outcome[1].status = "ok"
       /\ CallSimple(1, "ping")
    \/ \E t \in Threads : send_query_check(t)
    \/ \E t \in Threads : lock_acquire(t)
    \/ \E t \in Threads : reset_input_buffer(t)
    \/ \E t \in Threads : write(t)
    \/ \E t \in Threads : read_until(t)
    \/ \E t \in Threads, exc \in {"SerialException", "SerialTimeoutException"} :
            transport_error(t, exc)
    \/ \E t \in Threads : lock_release(t)
    \/ \E h \in Handles, whole \in BOOLEAN : deliver(h, whole)

SpecConstruct == InitConstruct /\ [][NextConstruct]_vars

\* ----------------------------------------------- one accessor call at a time
AccessorMethods ==
    {"is_interlocked", "leak_detected", "pumps_enabled", "pump_status",
     "unit_hours", "pump1_hours", "pump2_hours", "serial_number", "boot_ups",
     "compile_date"}

NextAccessors ==
    \/ /\ nops = 0
       /\ \E m \in AccessorMethods : CallSimple(1, m)
    \/ \E t \in Threads : send_query_check(t)
    \/ \E t \in Threads : lock_acquire(t)
    \/ \E t \in Threads : reset_input_buffer(t)
    \/ \E t \in Threads : write(t)
    \/ \E t \in Threads : read_until(t)
    \/ \E t \in Threads, exc \in {"SerialException", "SerialTimeoutException"} :
            transport_error(t, exc)
    \/ \E t \in Threads : lock_release(t)
    \/ \E h \in Handles, whole \in BOOLEAN : deliver(h, whole)

SpecAccessors == Init /\ [][NextAccessors]_vars

\* ----------------------------------------------------------------- claims
InCritical == {"reset", "write", "read", "release"}

\* the log positions of query q
Of(q) == {i \in DOMAIN wire : wire[i].q = q}

Failed(q) == \E i \in Of(q) : wire[i].res # "ok"

\* C1: the guard and transport operations of one query are never interleaved
\* with those of another query, and a query that returns hands its caller the
\* text of the read that directly followed its own write.
C1_NoInterleaving ==
    /\ \A k \in DOMAIN wire :
          \* where the log passes from one query to another, the query it
          \* passes to has no earlier entry
          (k > 1 /\ wire[k - 1].q # wire[k].q)
              => \A i \in 1..(k - 1) : wire[i].q # wire[k].q
    /\ \A t \in Threads :
          (outcome[t].status = "ok" /\ outcome[t].q # 0)
              => \E i \in Of(outcome[t].q) :
                    /\ wire[i].op = "write"
                    /\ i + 1 \in Of(outcome[t].q)
                    /\ wire[i + 1].op = "read"
                    /\ outcome[t].ret =
                          strip(replace(wire[i + 1].data, Txt(wire[i].data)))

\* a caller waits for the guard while another is between its write and read
C1_Witness ==
    \E t \in Threads : \E u \in Threads :
        /\ t # u
        /\ pc[t] = "acquire"
        /\ pc[u] = "read"
        /\ lock = u

\* C2: the guard is held only by a caller inside the critical section, so it
\* is free after every exit of _send_query: return, exception or timeout.
C2_GuardReleased ==
    /\ lock # 0 => pc[lock] \in InCritical
    /\ \A t \in Threads : pc[t] \in InCritical => lock = t

\* a query left with an exception or a timed-out read, and a later query
\* acquired the guard
C2_Witness ==
    \E i \in DOMAIN wire : \E j \in DOMAIN wire :
        /\ i < j
        /\ wire[i].op = "release"
        /\ Failed(wire[i].q) \/ \E k \in Of(wire[i].q) : wire[k].res = "timeout"
        /\ wire[j].op = "acquire"
        /\ wire[j].q # wire[i].q

\* C3 (as stated): a returned text holds only bytes of the reply to the
\* caller's own query.
C3_NoCrossTalk ==
    \A t \in Threads :
        outcome[t].status = "ok"
            => \A i \in DOMAIN outcome[t].ret : outcome[t].ret[i].q = outcome[t].q

\* C3 (amended): the bytes that were in the input buffer when a query reset
\* it are never among the bytes that query reads.
C3_ResetDiscards ==
    \A r \in DOMAIN wire :
        (wire[r].op = "reset" /\ wire[r].data # <<>>)
            => \A k \in DOMAIN wire :
                  (wire[k].op = "read" /\ wire[k].q = wire[r].q)
                      => \A a \in DOMAIN wire[r].data :
                            \A b \in DOMAIN wire[k].data :
                                wire[r].data[a] # wire[k].data[b]

\* a query discarded bytes of an earlier reply and returned its own reply
C3_Witness ==
    \E t \in Threads :
        /\ outcome[t].status = "ok"
        /\ outcome[t].ret # <<>>
        /\ \A i \in DOMAIN outcome[t].ret : outcome[t].ret[i].q = outcome[t].q
        /\ \E r \in Of(outcome[t].q) :
              /\ wire[r].op = "reset"
              /\ wire[r].data # <<>>
              /\ \A a \in DOMAIN wire[r].data : wire[r].data[a].q # outcome[t].q

\* C4: a read that ended at the timeout is never a successful return.
C4_TimeoutIsError ==
    \A t \in Threads :
        outcome[t].status = "ok"
            => ~ \E i \in Of(outcome[t].q) :
                    wire[i].op = "read" /\ wire[i].res = "timeout"

\* C5: a query whose connection check finds no open connection ends there
\* with the not-connected error, without touching the guard or the transport.
C5_NotConnected ==
    [][\A t \in Threads :
          (pc[t] = "check" /\ pc'[t] # "check" /\ ~PortOpen)
              => /\ pc'[t] = "idle"
                 /\ outcome'[t].status = "RuntimeError"
                 /\ outcome'[t].q = cur[t].q
                 /\ wire' = wire
                 /\ lock' = lock]_vars

\* a query was refused on a connection that exists but is closed
C5_Witness ==
    \E t \in Threads :
        /\ outcome[t].status = "RuntimeError"
        /\ serial_port # None
        /\ hstate[serial_port] = "closed"
        /\ Of(outcome[t].q) = {}

\* C6: from a failed open until the next successful one the driver has no
\* connection, and every connection check made in between ends the query with
\* the not-connected error and no guard or transport operation.
C6_FailedOpenDisconnects ==
    /\ [](lastOpenFailed => serial_port = None)
    /\ [][\A t \in Threads :
            (lastOpenFailed /\ pc[t] = "check" /\ pc'[t] # "check")
                => /\ pc'[t] = "idle"
                   /\ outcome'[t].status = "RuntimeError"
                   /\ wire' = wire
                   /\ lock' = lock]_vars

\* the driver was connected, an open failed, and the query after it was
\* refused
C6_Witness ==
    \E t \in Threads : \E u \in Threads :
        /\ lastOpenFailed
        /\ outcome[t].status = "RuntimeError"
        /\ outcome[u].m = "open_connection"
        /\ outcome[u].status = "failed"
        /\ nops = 2
        /\ nh = 1
        /\ hstate[1] = "open"

\* C7: after a query has failed with a transport error the driver is
\* disconnected until the next successful open.
C7_FailureDisconnects == commFailed => ~Connected

\* C8: no write or read is attempted on a closed connection.
C8_NoIOOnClosed ==
    \A i \in DOMAIN wire :
        wire[i].op \in {"write", "read"} => wire[i].res # "closed"

\* C9: at most one connection handle is open at any time.
C9_OneConnection == Cardinality({h \in Handles : hstate[h] = "open"}) <= 1

\* the frame SPS + n on three digits + terminator, digit by digit
SpeedFrame(n, term) ==
    <<"S", "P", "S", Digit(n \div 100), Digit((n \div 10) % 10), Digit(n % 10),
      term>>

MinFlowFrame(c) ==
    <<"S", "M", "I", "N", "F", Digit(c \div 100), ".", Digit((c \div 10) % 10),
      Digit(c % 10), "\r">>

\* C11: the minimum-flow setter of the serial driver ends with an argument
\* error and no guard or transport operation for 10.0, for 0.49 and for every
\* other argument outside [0.5, 10); every frame it writes comes from a
\* number in [0.5, 10), and for f in [0.50, 9.99] the frame is SMINF + the
\* hundredth nearest to f as d.dd + terminator (f itself when f is a whole
\* number of hundredths); a valid f on an open connection is written.
C11_MinFlowFrame ==
    /\ \A i \in DOMAIN wire :
          (wire[i].m = "min_flow_interlock" /\ wire[i].op = "write"
                                            /\ wire[i].res = "ok")
              => /\ wire[i].arg.ty \in {"int", "float"}
                 /\ 500 <= wire[i].arg.milli
                 /\ wire[i].arg.milli < 10000
                 /\ wire[i].arg.milli <= 9990
                       => \E c \in 50..999 :
                             /\ Txt(wire[i].data) = MinFlowFrame(c)
                             /\ 10 * c - wire[i].arg.milli \in (0 - 5)..5
    /\ \A t \in Threads :
          outcome[t].m = "min_flow_interlock"
              => IF /\ outcome[t].arg.ty \in {"int", "float"}
                    /\ 500 <= outcome[t].arg.milli
                    /\ outcome[t].arg.milli < 10000
                 THEN outcome[t].status = "ok"
                        => \E i \in Of(outcome[t].q) : wire[i].op = "write"
                 ELSE /\ outcome[t].status \in {"TypeError", "ValueError"}
                      /\ Of(outcome[t].q) = {}

\* 9.99 went out as SMINF9.99 and the call returned
C11_Witness ==
    \E t \in Threads :
        /\ outcome[t].m = "min_flow_interlock"
        /\ outcome[t].arg = FloatArg(9990)
        /\ outcome[t].status = "ok"
        /\ \E i \in Of(outcome[t].q) :
              /\ wire[i].op = "write"
              /\ Txt(wire[i].data)
                    = <<"S", "M", "I", "N", "F", "9", ".", "9", "9", "\r">>

\* the frame of a maximum temperature of n degrees, 0 <= n <= 99
MaxTempFrame(n) ==
    <<"S", "M", "A", "X", "T", Digit(n \div 10), Digit(n % 10), "\r">>

\* C12: the maximum-temperature setter of the serial driver writes only for
\* an int argument n in 5..65, the frame being SMAXT + n on two digits +
\* terminator, and a call with any argument that is not an int or is out of
\* range ends with an argument error and no guard or transport operation.
C12_MaxTempIntegerOnly ==
    /\ \A i \in DOMAIN wire :
          (wire[i].m = "max_temp_interlock" /\ wire[i].op = "write")
              => /\ IsInt(wire[i].arg)
                 /\ IntOf(wire[i].arg) \in 5..65
                 /\ Txt(wire[i].data) = MaxTempFrame(IntOf(wire[i].arg))
    /\ \A t \in Threads :
          (/\ outcome[t].m = "max_temp_interlock"
           /\ ~(IsInt(outcome[t].arg) /\ IntOf(outcome[t].arg) \in 5..65))
              => /\ outcome[t].status \in {"TypeError", "ValueError"}
                 /\ Of(outcome[t].q) = {}

\* C13: select_pumps writes only SPONO0, SPONO1 or SPONO2 + terminator, and
\* a call with a selector outside {0, 1, 2} ends with an argument error and
\* no guard or transport operation.
C13_SelectPumpsValidated ==
    /\ \A i \in DOMAIN wire :
          (wire[i].m = "select_pumps" /\ wire[i].op = "write")
              => \E p \in 0..2 :
                    Txt(wire[i].data) = <<"S", "P", "O", "N", "O", Digit(p), "\r">>
    /\ \A t \in Threads :
          (outcome[t].m = "select_pumps" /\ IntOf(outcome[t].arg) \notin 0..2)
              => /\ outcome[t].status \in {"TypeError", "ValueError"}
                 /\ Of(outcome[t].q) = {}

\* the writes of _send_query calls
RawWrites ==
    {i \in DOMAIN wire : /\ wire[i].m = "_send_query"
                         /\ wire[i].op = "write"
                         /\ wire[i].res = "ok"}

\* the writes of two _send_query calls, the second called with the first
\* one's command + terminator
FramingPairs ==
    {p \in RawWrites \X RawWrites :
        /\ wire[p[2]].arg.s = wire[p[1]].arg.s \o <<"\r">>}

\* s ends with the terminator
Terminated(s) == Len(s) >= 1 /\ s[Len(s)] = "\r"

\* s ends with the terminator, once
EndsOnce(s) == Terminated(s) /\ ~Terminated(SubSeq(s, 1, Len(s) - 1))

\* C14 as stated: for every command c, _send_query(c) and
\* _send_query(c + terminator) write the same bytes, and the frame ends with
\* the terminator exactly once.
C14_IdempotentFraming ==
    \A p \in FramingPairs :
        /\ Txt(wire[p[1]].data) = Txt(wire[p[2]].data)
        /\ EndsOnce(Txt(wire[p[1]].data))
        /\ EndsOnce(Txt(wire[p[2]].data))

\* C14, amended: for every command c that does not end with the terminator,
\* _send_query(c) and _send_query(c + terminator) write the same bytes, c
\* followed by the terminator once; a command that ends with the terminator
\* is written as it is, however many terminators it ends with.
C14_AppendsIfAbsent ==
    /\ \A p \in FramingPairs :
          ~Terminated(wire[p[1]].arg.s)
              => /\ Txt(wire[p[1]].data) = Txt(wire[p[2]].data)
                 /\ Txt(wire[p[1]].data) = wire[p[1]].arg.s \o <<"\r">>
                 /\ EndsOnce(Txt(wire[p[1]].data))
    /\ \A i \in RawWrites :
          Terminated(wire[i].arg.s) => Txt(wire[i].data) = wire[i].arg.s

\* '!' and then '!' + terminator were both written as '!' + terminator
C14_Witness ==
    \E p \in FramingPairs :
        /\ wire[p[1]].arg.s = <<"!">>
        /\ Txt(wire[p[1]].data) = <<"!", "\r">>
        /\ Txt(wire[p[2]].data) = <<"!", "\r">>

\* C15: in the pyvisa variant, on a connected instrument, send_query(c) and
\* then send_query(c + newline) each issue exactly one instrument query, the
\* two carry the same bytes, and each call returns the response or raises
\* the communication error.
C15_ApiIdempotentFraming ==
    (instrument /\ apiOutcome.m = "send_query")
        => /\ Len(apiWire) = apiOutcome.q
           /\ \A i \in DOMAIN apiWire : apiWire[i] = apiWire[1]
           /\ apiOutcome.status \in {"ok", "ConnectionError"}

\* the number of fields of s between separators sep
FieldCount(s, sep) == Cardinality({i \in DOMAIN s : s[i].c = sep}) + 1

\* C16: is_interlocked, leak_detected and pumps_enabled return a value only
\* when the cleaned response is '0' or '1'; for any other text, the empty
\* string included, the call fails.
C16_BooleanNoCoercion ==
    \A t \in Threads :
        (/\ outcome[t].m \in {"is_interlocked", "leak_detected", "pumps_enabled"}
         /\ outcome[t].status = "ok")
            => Txt(outcome[t].ret) \in {<<"0">>, <<"1">>}

\* C17: pump_status returns a value only for a response of exactly two
\* comma-separated fields, the hour-meter accessors only for exactly three
\* space-separated fields, the factory-info accessors only for exactly six.
C17_FieldCount ==
    \A t \in Threads :
        outcome[t].status = "ok"
            => /\ outcome[t].m = "pump_status"
                     => FieldCount(outcome[t].ret, ",") = 2
               /\ outcome[t].m \in {"unit_hours", "pump1_hours", "pump2_hours"}
                     => FieldCount(outcome[t].ret, " ") = 3
               /\ outcome[t].m \in {"serial_number", "boot_ups", "compile_date"}
                     => FieldCount(outcome[t].ret, " ") = 6

\* the text r without the command line at its start, if it starts with it
WithoutLeading(r, line) ==
    IF Len(r) >= Len(line) /\ Txt(SubSeq(r, 1, Len(line))) = line
    THEN SubSeq(r, Len(line) + 1, Len(r)) ELSE r

\* C18: the text a query returns is what it read, without the framed command
\* at its start if it starts with it, trimmed; the framed command occurring
\* anywhere else in what was read stays (the '!' + terminator that ends the
\* ping reply WAZOO! is part of the text that is trimmed and returned).
C18_LeadingEchoOnly ==
    \A t \in Threads :
        outcome[t].status = "ok"
            => \A i, j \in Of(outcome[t].q) :
                  (wire[i].op = "write" /\ wire[j].op = "read")
                      => Txt(outcome[t].ret)
                            = Txt(strip(WithoutLeading(wire[j].data,
                                                       Txt(wire[i].data))))

\* the exception a log entry's result stands for
Raised(res) == IF res = "closed" THEN "PortNotOpenError" ELSE res

Rank(op) ==
    CASE op = "acquire" -> 1
      [] op = "reset"   -> 2
      [] op = "write"   -> 3
      [] op = "read"    -> 4
      [] op = "release" -> 5

\* C20 as stated: every query that passed the connection check and has left
\* the critical section did reset, write and read, in this order and each
\* once, between taking and releasing the guard.
C20_EachExactlyOnce ==
    \A i \in DOMAIN wire :
        wire[i].op = "release"
            => /\ i >= 5
               /\ \A k \in 1..4 : /\ wire[i - 5 + k].q = wire[i].q
                                  /\ Rank(wire[i - 5 + k].op) = k

\* C20, amended: the operations of a query are in the order acquire, reset,
\* write, read, release, each at most once, the transport operations by the
\* holder of the guard; a write directly follows the successful reset of the
\* same query and a read its successful write; a query that raises does the
\* operations up to the failing one and then only the release; a query that
\* returns did all of them.
\* (The log of a query is one run of entries that starts with the query's
\* only acquire; every further entry is the successor of the one before it,
\* which did not fail, or is the release.)
C20_InOrderUnderGuard ==
    /\ \A t \in Threads : pc[t] \in {"reset", "write", "read"} => lock = t
    /\ \A k \in DOMAIN wire :
          IF k = 1 \/ wire[k - 1].q # wire[k].q
          THEN wire[k].op = "acquire"
          ELSE /\ wire[k - 1].op # "release"
               /\ \/ wire[k].op = "release"
                  \/ /\ Rank(wire[k].op) = Rank(wire[k - 1].op) + 1
                     /\ wire[k - 1].res = "ok"
    /\ \A i, j \in {k \in DOMAIN wire : wire[k].op = "acquire"} :
          wire[i].q = wire[j].q => i = j
    /\ \A t \in Threads :
          (outcome[t].status = "ok" /\ outcome[t].m \in SpecMethods)
              => \E i \in DOMAIN wire :
                    wire[i].q = outcome[t].q /\ wire[i].op = "read"

\* a query returned after acquire, reset, write, read and release, and
\* another one raised at its reset and did no write
C20_Witness ==
    /\ \E t \in Threads :
          /\ outcome[t].status = "ok"
          /\ \E i \in Of(outcome[t].q) : wire[i].op = "read"
    /\ \E i \in DOMAIN wire :
          /\ wire[i].op = "reset"
          /\ wire[i].res = "SerialException"
          /\ i < Len(wire)
          /\ wire[i + 1].op = "release"

\* the successful writes, in the order of the log
Writes == SelectSeq(wire, LAMBDA e : e.op = "write" /\ e.res = "ok")

\* C21: in HEUv3(port) the first frame written is DE and the second is the
\* ping, after the open; when the open has failed nothing is written, no
\* call of the constructor raises, and the driver is disconnected.
C21_ConstructorOrder ==
    /\ Len(Writes) >= 1
          => /\ Txt(Writes[1].data) = <<"D", "E", "\r">>
             /\ outcome[1].m # "none"
    /\ Len(Writes) >= 2 => Txt(Writes[2].data) = <<"!", "\r">>
    /\ lastOpenFailed
          => /\ Writes = <<>>
             /\ serial_port = None
             /\ outcome[1].status \in {"none", "ok", "failed"}

\* C22: a caller never waits for the guard while holding it, and every call
\* that has started returns or raises.
C22_EveryQueryCompletes ==
    /\ [](\A t \in Threads : pc[t] = "acquire" => lock # t)
    /\ \A t \in Threads : (pc[t] # "idle") ~> (pc[t] = "idle")

\* a caller waits for the guard while the holder is leaving with an exception
C22_Witness ==
    \E t \in Threads : \E u \in Threads :
        /\ pc[t] = "acquire"
        /\ pc[u] = "release"
        /\ cur[u].exc # "none"
        /\ lock = u

\* C23: the transport operations of one query all act on one handle, the
\* one that passed the connection check: no query finds serial_port replaced
\* or cleared between its check and its read.
C23_SameHandle ==
    /\ \A i, j \in {k \in DOMAIN wire : wire[k].op \in {"reset", "write", "read"}} :
          wire[i].q = wire[j].q => wire[i].h = wire[j].h
    /\ \A t \in Threads : outcome[t].status # "AttributeError"

ApiMinFlowFrame(c) == SubSeq(MinFlowFrame(c), 1, 9) \o <<"\n">>

\* C25: every minimum-flow frame that goes out, from the serial driver or
\* from the pyvisa variant, is SMINF + n.nn + terminator with n.nn from 0.50
\* to 9.99; SMINF10.00 never goes out.
C25_MinFlowArgumentInRange ==
    /\ \A i \in DOMAIN wire :
          (wire[i].m = "min_flow_interlock" /\ wire[i].op = "write"
                                            /\ wire[i].res = "ok")
              => \E c \in 50..999 : Txt(wire[i].data) = MinFlowFrame(c)
    /\ apiOutcome.m = "set_min_flow_interlock"
          => \A i \in DOMAIN apiWire :
                \E c \in 50..999 : apiWire[i] = ApiMinFlowFrame(c)

====
